---- MODULE Spec2Model ----
(***************************************************************************)
(* InfluxDBStorage (aw_datastore/storages/influxdb.py): the storage        *)
(* adapter that keeps ActivityWatch events in an InfluxDB database.        *)
(*                                                                         *)
(* The database is a function from measurement names to sets of points.   *)
(* A point is [time, tags, fields]; within one measurement a point is      *)
(* keyed by its tag set and its time ("Time combined with measure          *)
(* (bucket_id) and tag style make it unique", influxdb.py:14-15).  Times   *)
(* are integers in the adapter's precision (self.time_precision = "ms").   *)
(* A field whose value is None is not written by the client, so None is    *)
(* modelled by the absence of the key.  A point written with the key of    *)
(* an existing point takes its place; fields the new write does not name   *)
(* keep the value the stored point had.                                    *)
(*                                                                         *)
(* Every method of the adapter is an operator on a database value d, and   *)
(* an action that applies it to db and records the call (last), what it    *)
(* returned (result) and the database it started from (pre).               *)
(***************************************************************************)
EXTENDS Integers, Sequences, FiniteSets, TLC

\* Python's None, for ids, optional datetimes and the optional bucket name.
None == -1

\* ---- bounds of the model ----
MaxTime == 1       \* event timestamps and ids range over 0..MaxTime
MaxDuration == 1   \* event durations (seconds) range over 1..MaxDuration
MaxPoints == 3     \* most points held by all bucket series together
MaxCreated == 2    \* bucket creation times range over 1..MaxCreated
MaxLimit == 2      \* get_events limits range over -1..MaxLimit
MaxAttrs == 1      \* most attributes in the data of an event
MaxValue == 2      \* attribute values given to the codec range over 0..MaxValue

BucketIds == {"b1", "b2"}
Measurements == BucketIds \cup {"metadata"}

\* self.tags: the attribute names that are also written as tags.
tags == {"app", "status"}

\* "_" + key, for the keys of self.tags.
TagKey(key) == IF key = "app" THEN "_app" ELSE "_status"

\* key[0] == "_"
StartsWithUnderscore(key) == key \in {"_app", "_status", "_id"}

EmptyMap == [k \in {} |-> 0]

\* ---- inputs ----
DataKeys == {"label", "app"}
DataValues == {1}
DataSet == UNION {[S -> DataValues] : S \in {T \in SUBSET DataKeys : Cardinality(T) <= MaxAttrs}}
Times == 0..MaxTime
Ids == {None} \cup Times
Durations == 1..MaxDuration
Events == [id : Ids, timestamp : Times, duration : Durations, data : DataSet]
NoEvent == [id |-> None, timestamp |-> None, duration |-> 0, data |-> EmptyMap]

\* name: Optional[str] = None
NoName == "<None>"

\* The argument tuples create_bucket is called with (name is optional).
BucketArgs ==
    { [type_id |-> "t1", client |-> "c1", hostname |-> "h1", name |-> NoName],
      [type_id |-> "t2", client |-> "c2", hostname |-> "h2", name |-> "n2"] }
NoArgs == [type_id |-> "", client |-> "", hostname |-> "", name |-> NoName]
Createds == 1..MaxCreated
Limits == (-1)..MaxLimit
OptTimes == {None} \cup Times

VARIABLES
    db,      \* the InfluxDB database: measurement -> set of points
    pre,     \* the database as it was when the last call started
    last,    \* the last call: operation and arguments
    result,  \* what the last call returned (or the exception it raised)
    pending  \* writer -> its replace_last between the lookup and the write

vars == <<db, pre, last, result, pending>>

\* ---- the backend, as the adapter uses it ----

\* Field sets of a point written twice: the later write wins key by key.
Merge(old, new) ==
    [k \in (DOMAIN old) \cup (DOMAIN new) |->
        IF k \in DOMAIN new THEN new[k] ELSE old[k]]

\* db.write_points(points=[pt]): a point with the measurement, tag set and
\* time of an existing point takes its place, any other becomes a new point.
WritePoint(d, pt) ==
    LET m == pt.measurement
        same == {q \in d[m] : q.time = pt.time /\ q.tags = pt.tags}
        fields == IF same = {} THEN pt.fields
                  ELSE Merge((CHOOSE q \in same : TRUE).fields, pt.fields)
    IN  [d EXCEPT ![m] = (@ \ same) \cup
            {[time |-> pt.time, tags |-> pt.tags, fields |-> fields]}]

RECURSIVE WritePoints(_, _)
WritePoints(d, points) ==
    IF points = <<>> THEN d
    ELSE WritePoints(WritePoint(d, Head(points)), Tail(points))

\* db.get_list_measurements(): a measurement exists while it holds a point.
ListMeasurements(d) == {m \in Measurements : d[m] # {}}

\* db.delete_series(measurement=bucket_id)
DeleteSeries(d, bucket_id) == [d EXCEPT ![bucket_id] = {}]

Max(S) == CHOOSE x \in S : \A y \in S : y <= x
Min(S) == CHOOSE x \in S : \A y \in S : x <= y


\* What a call gives back: a value, or the exception it raised.
Ok(v) == [exc |-> "", value |-> v]
Raise(e) == [exc |-> e, value |-> EmptyMap]

\* ---- Event Codec ----

\* _event_parser_to: the point written for an event.  "id" and "duration"
\* are set first and the data attributes after them, so an attribute of
\* the same name takes the field over; an id of None leaves no id field.
event_parser_to(bucket_id, event) ==
    LET base == IF event.id = None THEN {"duration"} ELSE {"id", "duration"}
        tagged == {key \in DOMAIN event.data : key \in tags}
    IN  [measurement |-> bucket_id,
         tags |-> [t \in {TagKey(key) : key \in tagged} |->
                      event.data[CHOOSE key \in tagged : TagKey(key) = t]],
         time |-> event.timestamp,
         fields |-> [k \in base \cup DOMAIN event.data |->
                      IF k \in DOMAIN event.data THEN event.data[k]
                      ELSE IF k = "id" THEN event.id
                      ELSE event.duration]]

\* if event[key]: Python truthiness of a stored value.
Truthy(v) == v # 0

\* _event_parser_from, for one returned record: the id and the timestamp
\* are the record's time key, and every truthy column that is not time,
\* duration or "_"-prefixed goes to the data.
EventOf(p) ==
    LET keys == {k \in DOMAIN p.fields :
                    /\ k \notin {"time", "duration"}
                    /\ ~StartsWithUnderscore(k)
                    /\ Truthy(p.fields[k])}
    IN  [id |-> p.time,
         timestamp |-> p.time,
         duration |-> p.fields["duration"],
         data |-> [k \in keys |-> p.fields[k]]]

event_parser_from(rows) == [i \in 1..Len(rows) |-> EventOf(rows[i])]

\* ---- Query Engine ----

\* The backend's default order, oldest first (the ORDER BY clause left out).
Ascending(S) ==
    {s \in [1..Cardinality(S) -> S] :
        /\ \A i, j \in 1..Cardinality(S) : i # j => s[i] # s[j]
        /\ \A i, j \in 1..Cardinality(S) : i < j => s[i].time <= s[j].time}

\* The orders in which the backend can return the points S under
\* ORDER BY time DESC (points of equal time come in either order).
Descending(S) ==
    {s \in [1..Cardinality(S) -> S] :
        /\ \A i, j \in 1..Cardinality(S) : i # j => s[i] # s[j]
        /\ \A i, j \in 1..Cardinality(S) : i < j => s[i].time >= s[j].time}

Take(s, n) == IF n >= Len(s) THEN s ELSE SubSeq(s, 1, n)

\* get_events with "time > starttime" for "time >= starttime".
get_events_exclusive(d, bucket_id, limit, starttime, endtime) ==
    LET rows == {p \in d[bucket_id] :
                    /\ starttime # None => p.time > starttime
                    /\ endtime # None => p.time <= endtime}
    IN  {event_parser_from(IF limit # 0 /\ limit > -1 THEN Take(s, limit) ELSE s) :
            s \in Descending(rows)}

\* get_events: the results the call can return.
get_events(d, bucket_id, limit, starttime, endtime) ==
    LET rows == {p \in d[bucket_id] :
                    /\ starttime # None => p.time >= starttime
                    /\ endtime # None => p.time <= endtime}
    IN  {event_parser_from(IF limit # 0 /\ limit > -1 THEN Take(s, limit) ELSE s) :
            s \in Descending(rows)}

\* get_eventcount: SELECT COUNT (id); the time bounds are not used.
get_eventcount(d, bucket_id, starttime, endtime) ==
    Cardinality({p \in d[bucket_id] : "id" \in DOMAIN p.fields})

\* _get_last_event_id: the time key of the latest record with an id field.
get_last_event_id(d, bucket_id) ==
    LET withId == {p \in d[bucket_id] : "id" \in DOMAIN p.fields}
    IN  IF withId = {} THEN None ELSE Max({p.time : p \in withId})

\* ---- Bucket Registry ----

\* get_metadata: next() of the records tagged with bucket_id, which come
\* in ascending time order; StopIteration when there is none.
MetadataRows(d, bucket_id) ==
    {p \in d["metadata"] : "id" \in DOMAIN p.tags /\ p.tags["id"] = bucket_id}

get_metadata(d, bucket_id) ==
    LET rows == MetadataRows(d, bucket_id)
    IN  IF rows = {} THEN Raise("StopIteration")
        ELSE LET p == CHOOSE q \in rows : q.time = Min({r.time : r \in rows})
             IN  Ok(Merge(Merge([k \in {"time"} |-> p.time], p.tags), p.fields))

\* buckets: the metadata of every measurement but "metadata".
buckets(d) ==
    LET bucketnames == {m \in ListMeasurements(d) : m # "metadata"}
    IN  IF \E m \in bucketnames : get_metadata(d, m).exc # ""
        THEN Raise("StopIteration")
        ELSE Ok([m \in bucketnames |-> get_metadata(d, m).value])

\* create_bucket: one point in "metadata", tagged with the bucket id and
\* written at time created, then the dummy event of the bucket's series.
create_bucket(d, bucket_id, a, created) ==
    LET named == IF a.name = NoName THEN {} ELSE {"name"}
        metadata ==
            [measurement |-> "metadata",
             time |-> created,
             tags |-> [id |-> bucket_id, _id |-> "metadata"],
             fields |-> [k \in named \cup {"type", "client", "hostname", "created"} |->
                            CASE k = "name" -> a.name
                              [] k = "type" -> a.type_id
                              [] k = "client" -> a.client
                              [] k = "hostname" -> a.hostname
                              [] OTHER -> created]]
        dummyevent ==
            [measurement |-> bucket_id,
             time |-> 0,
             tags |-> EmptyMap,
             fields |-> [k \in {"duration"} |-> 0]]
    IN  WritePoints(WritePoints(d, <<metadata>>), <<dummyevent>>)

\* delete_bucket
delete_bucket(d, bucket_id) == DeleteSeries(d, bucket_id)

\* ---- writes of events, and the Replace Protocol ----

\* insert_one: write the event's point, then give the event the id that
\* _get_last_event_id finds.
insert_one(d, bucket_id, event) ==
    LET data == event_parser_to(bucket_id, event)
        written == WritePoints(d, <<data>>)
    IN  [db |-> written,
         ret |-> Ok([event EXCEPT !.id = get_last_event_id(written, bucket_id)])]

\* insert_many: "data, event = self._event_parser_to(...)" unpacks the
\* four keys of the point into two names, so the first event raises
\* ValueError before anything is written.
insert_many(d, bucket_id, events) ==
    IF Len(events) > 0
    THEN [db |-> d, ret |-> Raise("ValueError")]
    ELSE [db |-> WritePoints(d, <<>>), ret |-> Ok(None)]

\* delete with the LIMIT 1 left out: every record with the id goes.
delete_all(d, bucket_id, event_id) ==
    LET matching == {p \in d[bucket_id] :
                        "id" \in DOMAIN p.fields /\ p.fields["id"] = event_id}
    IN  {[db |-> d, ret |-> Raise("InfluxDBClientError")],
         [db |-> [d EXCEPT ![bucket_id] = @ \ matching], ret |-> Ok(None)]}

\* delete: DELETE FROM bucket_id WHERE "id" = event_id LIMIT 1.  The outcomes
\* the backend can give: it refuses the statement (its DELETE filters on
\* tags and time and has no LIMIT clause) and the client raises, or it
\* removes one of the records whose id field is event_id, if there is one.
delete(d, bucket_id, event_id) ==
    LET matching == {p \in d[bucket_id] :
                        "id" \in DOMAIN p.fields /\ p.fields["id"] = event_id}
    IN  {[db |-> d, ret |-> Raise("InfluxDBClientError")]}
        \cup (IF matching = {} THEN {[db |-> d, ret |-> Ok(None)]}
              ELSE {[db |-> [d EXCEPT ![bucket_id] = @ \ {p}], ret |-> Ok(None)] :
                       p \in matching})

\* replace
replace(d, bucket_id, event_id, event) ==
    insert_one(d, bucket_id, [event EXCEPT !.id = event_id])

\* replace_last
replace_last(d, bucket_id, event) ==
    insert_one(d, bucket_id, [event EXCEPT !.id = get_last_event_id(d, bucket_id)])

\* ---- the state machine: one action per call of the adapter ----

NumPoints(d) == Cardinality(UNION {d[b] \X {b} : b \in BucketIds})

\* The events a caller builds itself: no id yet.
NewEvents == {e \in Events : e.id = None}

\* The lists insert_many is called with.
BulkEvents == {e \in NewEvents : e.duration = 1 /\ DOMAIN e.data = {"label"}}
Bulks == {<<>>} \cup {<<e>> : e \in BulkEvents}
            \cup {p \in BulkEvents \X BulkEvents : p[1].timestamp # p[2].timestamp}

\* The queries get_events is called with: a limit, or a time window.
Queries ==
    [limit : Limits, starttime : {None}, endtime : {None}]
        \cup [limit : {-1}, starttime : OptTimes, endtime : OptTimes]

\* The time windows get_eventcount is called with.
CountWindows ==
    { [starttime |-> None, endtime |-> None],
      [starttime |-> MaxTime, endtime |-> None],
      [starttime |-> None, endtime |-> 0] }

Call(op, bucket_id) ==
    [op |-> op, bucket_id |-> bucket_id, event |-> NoEvent, events |-> <<>>,
     event_id |-> None, args |-> NoArgs, created |-> None,
     limit |-> None, starttime |-> None, endtime |-> None]

\* The clients that write to the store, each a sequential program.
Writers == {"w1", "w2"}

\* A writer that is not inside replace_last.
NoPending == [active |-> FALSE, bucket_id |-> "", event |-> NoEvent, seen |-> {}]

Init ==
    /\ db = [m \in Measurements |-> {}]
    /\ pre = db
    /\ last = Call("init", "")
    /\ result = Ok(None)
    /\ pending = [w \in Writers |-> NoPending]

\* The model holds MaxPoints points at most in the bucket series.
Fits(d) == NumPoints(d) <= MaxPoints

\* The call is recorded with what it returned and the database it began in.
Records(call, ret) ==
    /\ pre' = db
    /\ last' = call
    /\ result' = ret

\* A call made in one piece: no replace_last is entered or left.
Returns(call, ret) ==
    /\ Records(call, ret)
    /\ UNCHANGED pending

\* Each action takes the sets its arguments are drawn from: the buckets B,
\* and the events E or the create_bucket arguments A and creation times C.

CreateBucket(B, A, C) ==
    \E b \in B, a \in A, c \in C :
        /\ Fits(create_bucket(db, b, a, c))
        /\ db' = create_bucket(db, b, a, c)
        /\ Returns([Call("create_bucket", b) EXCEPT !.args = a, !.created = c],
                   Ok(None))

DeleteBucket(B) ==
    \E b \in B :
        /\ db' = delete_bucket(db, b)
        /\ Returns(Call("delete_bucket", b), Ok(None))

InsertOne(B, E) ==
    \E b \in B, e \in E :
        LET r == insert_one(db, b, e)
        IN  /\ Fits(r.db)
            /\ db' = r.db
            /\ Returns([Call("insert_one", b) EXCEPT !.event = e], r.ret)

InsertMany(B) ==
    \E b \in B, es \in Bulks :
        LET r == insert_many(db, b, es)
        IN  /\ Fits(r.db)
            /\ db' = r.db
            /\ Returns([Call("insert_many", b) EXCEPT !.events = es], r.ret)

Delete(B) ==
    \E b \in B, id \in Times :
        \E r \in delete(db, b, id) :
            /\ db' = r.db
            /\ Returns([Call("delete", b) EXCEPT !.event_id = id], r.ret)

Replace(B, E) ==
    \E b \in B, id \in Times, e \in E :
        LET r == replace(db, b, id, e)
        IN  /\ Fits(r.db)
            /\ db' = r.db
            /\ Returns([Call("replace", b) EXCEPT !.event = e, !.event_id = id],
                       r.ret)

ReplaceLast(B, E) ==
    \E b \in B, e \in E :
        LET r == replace_last(db, b, e)
        IN  /\ Fits(r.db)
            /\ db' = r.db
            /\ Returns([Call("replace_last", b) EXCEPT !.event = e], r.ret)

GetEvents(B) ==
    \E b \in B, q \in Queries :
        \E r \in get_events(db, b, q.limit, q.starttime, q.endtime) :
            /\ UNCHANGED db
            /\ Returns([Call("get_events", b) EXCEPT
                           !.limit = q.limit, !.starttime = q.starttime,
                           !.endtime = q.endtime],
                       Ok(r))

GetEventcount(B) ==
    \E b \in B, w \in CountWindows :
        /\ UNCHANGED db
        /\ Returns([Call("get_eventcount", b) EXCEPT
                       !.starttime = w.starttime, !.endtime = w.endtime],
                   Ok(get_eventcount(db, b, w.starttime, w.endtime)))

GetMetadata(B) ==
    \E b \in B :
        /\ UNCHANGED db
        /\ Returns(Call("get_metadata", b), get_metadata(db, b))

Buckets ==
    /\ UNCHANGED db
    /\ Returns(Call("buckets", ""), buckets(db))

\* ---- the event store: every call, on one bucket ----

EventBuckets == {"b1"}
EventArgs == {a \in BucketArgs : a.name = NoName}

Next ==
    \/ CreateBucket(EventBuckets, EventArgs, {1})
    \/ DeleteBucket(EventBuckets)
    \/ InsertOne(EventBuckets, Events)
    \/ InsertMany(EventBuckets)
    \/ Delete(EventBuckets)
    \/ Replace(EventBuckets, NewEvents)
    \/ ReplaceLast(EventBuckets, NewEvents)
    \/ GetEvents(EventBuckets)
    \/ GetEventcount(EventBuckets)
    \/ GetMetadata(EventBuckets)
    \/ Buckets

Spec == Init /\ [][Next]_vars

\* ---- the bucket registry: two buckets, created and deleted at will ----

RegistryEvents == {e \in BulkEvents : e.timestamp = 1}

NextRegistry ==
    \/ CreateBucket(BucketIds, BucketArgs, Createds)
    \/ DeleteBucket(BucketIds)
    \/ InsertOne(BucketIds, RegistryEvents)
    \/ GetMetadata(BucketIds)
    \/ Buckets

SpecRegistry == Init /\ [][NextRegistry]_vars

\* ---- what the callers observe ----

\* len(get_events(bucket_id, limit=-1)): every result has this length.
NumEvents(d, bucket_id) == Cardinality(d[bucket_id])

\* The events get_events(bucket_id, limit=-1) can put first (the latest).
LatestEvents(d, bucket_id) ==
    {r[1] : r \in {q \in get_events(d, bucket_id, -1, None, None) : Len(q) > 0}}

MinOf(a, b) == IF a <= b THEN a ELSE b

\* ---- replace_last in its two steps, two writers on one series ----

\* The events of the writers: with the id the caller chose, or without.
ConcurrentEvents == {e \in Events : e.data = EmptyMap /\ e.id \in {None, e.timestamp}}

\* replace_last, line 244: the id is looked up and put on the event.  seen
\* keeps the series as the lookup found it.
ReplaceLastLookup(w, B, E) ==
    \E b \in B, e \in E :
        /\ ~pending[w].active
        /\ pending' = [pending EXCEPT ![w] =
               [active |-> TRUE, bucket_id |-> b, seen |-> db[b],
                event |-> [e EXCEPT !.id = get_last_event_id(db, b)]]]
        /\ UNCHANGED db
        /\ Records(Call("_get_last_event_id", b), Ok(get_last_event_id(db, b)))

\* replace_last, line 245: the event goes to insert_one with that id.
ReplaceLastWrite(w) ==
    LET b == pending[w].bucket_id
        r == insert_one(db, b, pending[w].event)
    IN  /\ pending[w].active
        /\ Fits(r.db)
        /\ db' = r.db
        /\ pending' = [pending EXCEPT ![w] = NoPending]
        /\ Records([Call("replace_last", b) EXCEPT !.event = pending[w].event],
                   r.ret)

\* insert_one by a writer that is not inside replace_last.
InsertOneBy(w, B, E) ==
    /\ ~pending[w].active
    /\ InsertOne(B, E)

NextConcurrent ==
    \/ \E w \in Writers : ReplaceLastLookup(w, EventBuckets, ConcurrentEvents)
    \/ \E w \in Writers : ReplaceLastWrite(w)
    \/ \E w \in Writers : InsertOneBy(w, EventBuckets, ConcurrentEvents)

SpecConcurrent == Init /\ [][NextConcurrent]_vars

\* ---- the codec alone: an event encoded, the point decoded ----

\* The events given to the codec: attribute names that meet the names of
\* the fields the codec sets itself, and values that are falsy (0) or not.
CodecKeys == {"label", "app", "id", "duration"}
CodecValues == 0..MaxValue
CodecEvents ==
    [id : Ids, timestamp : Times, duration : Durations,
     data : UNION {[S -> CodecValues] :
                      S \in {T \in SUBSET CodecKeys : Cardinality(T) <= MaxAttrs}}]

EventParserTo(B, E) ==
    \E b \in B, e \in E :
        /\ UNCHANGED db
        /\ Returns([Call("_event_parser_to", b) EXCEPT !.event = e],
                   Ok(event_parser_to(b, e)))

\* The point comes back from the backend as one row and is decoded.
EventParserFrom ==
    /\ last.op = "_event_parser_to"
    /\ UNCHANGED db
    /\ Returns([last EXCEPT !.op = "_event_parser_from"],
               Ok(event_parser_from(<<result.value>>)))

NextCodec ==
    \/ EventParserTo(BucketIds, CodecEvents)
    \/ EventParserFrom

SpecCodec == Init /\ [][NextCodec]_vars

\* C1: after insert_one(b, A) followed by replace_last(b, B), get_events(b, -1)
\* returns as many events as just before replace_last, and the most recent
\* event of b has B's timestamp, duration and data.
C1_ReplaceLastKeepsCount ==
    [][(/\ last.op = "insert_one"
        /\ last'.op = "replace_last"
        /\ last'.bucket_id = last.bucket_id)
       => (/\ NumEvents(db', last'.bucket_id) = NumEvents(db, last'.bucket_id)
           /\ \A ev \in LatestEvents(db', last'.bucket_id) :
                /\ ev.timestamp = last'.event.timestamp
                /\ ev.duration = last'.event.duration
                /\ \A k \in DOMAIN last'.event.data :
                     k \in DOMAIN ev.data /\ ev.data[k] = last'.event.data[k])]_vars

\* C2: a bucket holding N events returns min(N, K) events for every limit
\* K >= 0, K = 0 included, and all N events for limit -1.
C2_LimitSemantics ==
    \A b \in EventBuckets, K \in Limits :
        \A r \in get_events(db, b, K, None, None) :
            Len(r) = IF K = -1 THEN NumEvents(db, b)
                     ELSE MinOf(NumEvents(db, b), K)

\* C3: a bucket just created holds no events, and every insert_one of an
\* event with a new timestamp adds exactly one to get_eventcount and to the
\* length of get_events(b, -1); so N such inserts after create_bucket give N.
C3_InsertThenCount ==
    /\ (last.op = "create_bucket" /\ pre[last.bucket_id] = {})
          => /\ get_eventcount(db, last.bucket_id, None, None) = 0
             /\ NumEvents(db, last.bucket_id) = 0
    /\ (/\ last.op = "insert_one"
        /\ \A p \in pre[last.bucket_id] : p.time # last.event.timestamp)
          => /\ NumEvents(db, last.bucket_id) = NumEvents(pre, last.bucket_id) + 1
             /\ get_eventcount(db, last.bucket_id, None, None)
                  = get_eventcount(pre, last.bucket_id, None, None) + 1

\* The metadata m carries the arguments a of a create_bucket call.
MatchesArgs(m, a) ==
    /\ "type" \in DOMAIN m /\ m["type"] = a.type_id
    /\ "client" \in DOMAIN m /\ m["client"] = a.client
    /\ "hostname" \in DOMAIN m /\ m["hostname"] = a.hostname
    /\ IF a.name = NoName THEN "name" \notin DOMAIN m
       ELSE "name" \in DOMAIN m /\ m["name"] = a.name

\* C4: right after create_bucket(b, ...), buckets() has the key b with the
\* name, type, client and hostname of that call, and buckets() never has the
\* key "metadata".
C4_CreatedBucketListed ==
    /\ last.op = "create_bucket"
          => /\ buckets(db).exc = ""
             /\ last.bucket_id \in DOMAIN buckets(db).value
             /\ MatchesArgs(buckets(db).value[last.bucket_id], last.args)
    /\ buckets(db).exc = "" => "metadata" \notin DOMAIN buckets(db).value

\* C5: after delete_bucket(b) of a created bucket, b is not in buckets(), b
\* holds no point, no metadata record of b remains and get_metadata(b) fails.
C5_DeletedBucketGone ==
    (/\ last.op = "delete_bucket"
     /\ pre[last.bucket_id] # {}
     /\ MetadataRows(pre, last.bucket_id) # {})
       => /\ last.bucket_id \notin ListMeasurements(db)
          /\ buckets(db).exc = "" => last.bucket_id \notin DOMAIN buckets(db).value
          /\ db[last.bucket_id] = {}
          /\ MetadataRows(db, last.bucket_id) = {}
          /\ get_metadata(db, last.bucket_id).exc # ""

\* C6: insert_many(b, events) with k >= 1 events of distinct timestamps, none
\* of them in b yet, raises nothing, adds k to the length of get_events(b, -1)
\* and leaves the records b held as they were.
C6_InsertManyAddsAll ==
    (/\ last.op = "insert_many"
     /\ Len(last.events) >= 1
     /\ \A i, j \in 1..Len(last.events) :
            i # j => last.events[i].timestamp # last.events[j].timestamp
     /\ \A i \in 1..Len(last.events), p \in pre[last.bucket_id] :
            p.time # last.events[i].timestamp)
       => /\ result.exc = ""
          /\ NumEvents(db, last.bucket_id)
                = NumEvents(pre, last.bucket_id) + Len(last.events)
          /\ pre[last.bucket_id] \subseteq db[last.bucket_id]

\* C7: whatever create_bucket calls were made for b (also with different
\* created values), "metadata" holds one record for b at most, and right
\* after a create_bucket(b, ...) get_metadata(b) returns that call's values.
C7_CreateBucketIdempotent ==
    /\ \A b \in BucketIds : Cardinality(MetadataRows(db, b)) <= 1
    /\ last.op = "create_bucket"
          => /\ Cardinality(MetadataRows(db, last.bucket_id)) = 1
             /\ get_metadata(db, last.bucket_id).exc = ""
             /\ MatchesArgs(get_metadata(db, last.bucket_id).value, last.args)
             /\ get_metadata(db, last.bucket_id).value["created"] = last.created

\* C8: get_metadata(b) returns a record only when "metadata" holds exactly
\* one record tagged b; it fails as not found when there is none and with
\* IntegrityError when there are several.
C8_MetadataExactlyOne ==
    last.op = "get_metadata" =>
        LET n == Cardinality(MetadataRows(db, last.bucket_id))
        IN  /\ n = 0 => result.exc \in {"NotFoundError", "StopIteration"}
            /\ n = 1 => result.exc = ""
            /\ n > 1 => result.exc = "IntegrityError"

\* The record of d[b] at time t carries the duration and the data of event e.
Carries(d, b, t, e) ==
    \E p \in d[b] :
        /\ p.time = t
        /\ p.fields["duration"] = e.duration
        /\ \A k \in DOMAIN e.data : k \in DOMAIN p.fields /\ p.fields[k] = e.data[k]

\* C9: replace(b, eventId, e) with the eventId that _get_last_event_id gave
\* for b leaves the number of records of b as it was, and the record at
\* eventId's time carries e's duration and data, whatever e.timestamp is.
C9_ReplaceInPlace ==
    (/\ last.op = "replace"
     /\ last.event_id = get_last_event_id(pre, last.bucket_id))
       => /\ NumEvents(db, last.bucket_id) = NumEvents(pre, last.bucket_id)
          /\ Carries(db, last.bucket_id, last.event_id, last.event)

\* C10: the event insert_one(b, e) returns has an id, and the id is the time
\* key of the record the call wrote for e, whatever b held and whatever e is.
C10_InsertOneReturnsOwnId ==
    last.op = "insert_one"
       => /\ result.exc = ""
          /\ result.value.id # None
          /\ result.value.id = event_parser_to(last.bucket_id, last.event).time

\* C11: get_eventcount honours its time bounds as get_events does: for every
\* starttime and endtime (each possibly None) it returns the number of events
\* get_events(b, -1, starttime, endtime) returns.
C11_CountMatchesEvents ==
    \A b \in EventBuckets, st \in OptTimes, en \in OptTimes :
        \A r \in get_events(db, b, -1, st, en) :
            get_eventcount(db, b, st, en) = Len(r)

\* time t lies in the window [starttime, endtime]; None leaves a side open.
InWindow(t, starttime, endtime) ==
    /\ starttime # None => starttime <= t
    /\ endtime # None => t <= endtime

\* C12: get_events(b, -1, starttime, endtime) returns exactly the events of b
\* whose timestamp t has starttime <= t <= endtime, both ends included; a
\* bound that is None does not constrain its side.
C12_WindowInclusive ==
    \A b \in EventBuckets, st \in OptTimes, en \in OptTimes :
        \A r \in get_events(db, b, -1, st, en) :
            \A t \in Times :
                Cardinality({i \in 1..Len(r) : r[i].timestamp = t})
                    = IF InWindow(t, st, en)
                      THEN Cardinality({p \in db[b] : p.time = t})
                      ELSE 0

\* A window whose two ends are one timestamp returned the event at that
\* timestamp and left out an event the bucket holds at another one.
C12_Witness ==
    /\ last.op = "get_events"
    /\ last.starttime # None
    /\ last.starttime = last.endtime
    /\ Len(result.value) >= 1
    /\ \A i \in 1..Len(result.value) : result.value[i].timestamp = last.starttime
    /\ \E p \in db[last.bucket_id] : p.time # last.starttime

\* C13: every result of get_events is in non-increasing timestamp order, and
\* when the limit cuts the result short the events kept are the most recent
\* of the window: fewer than i records of the window are later than the
\* i-th event returned.
C13_MostRecentFirst ==
    \A b \in EventBuckets, l \in Limits, st \in OptTimes, en \in OptTimes :
        LET window == {p \in db[b] : InWindow(p.time, st, en)}
        IN  \A r \in get_events(db, b, l, st, en) :
              /\ \A i, j \in 1..Len(r) : i < j => r[i].timestamp >= r[j].timestamp
              /\ Len(r) < Cardinality(window) =>
                    /\ Len(r) = l
                    /\ \A i \in 1..Len(r) :
                          Cardinality({p \in window : p.time > r[i].timestamp}) < i

\* A limit of 1 cut short the events of a bucket that holds records at two
\* different times, and the one event returned is the latest.
C13_Witness ==
    /\ last.op = "get_events"
    /\ last.limit = 1
    /\ Len(result.value) = 1
    /\ \E p, q \in db[last.bucket_id] : p.time < q.time
    /\ \A p \in db[last.bucket_id] : p.time <= result.value[1].timestamp

\* C14: delete(b, eventId) removes one record of b at most, removes only a
\* record whose id field is eventId, and leaves every other record of b and
\* every other series, "metadata" included, as it was.
C14_DeleteFrame ==
    last.op = "delete" =>
        LET b == last.bucket_id
            removed == pre[b] \ db[b]
        IN  /\ db[b] \subseteq pre[b]
            /\ Cardinality(removed) <= 1
            /\ \A p \in removed :
                  "id" \in DOMAIN p.fields /\ p.fields["id"] = last.event_id
            /\ \A m \in Measurements \ {b} : db[m] = pre[m]

\* delete removed one of two records that carried the id, in a database
\* that also holds a metadata record.
C14_Witness ==
    /\ last.op = "delete"
    /\ Cardinality(pre[last.bucket_id] \ db[last.bucket_id]) = 1
    /\ \E p \in db[last.bucket_id] :
          "id" \in DOMAIN p.fields /\ p.fields["id"] = last.event_id
    /\ db["metadata"] # {}

\* C15: decoding the point made from an event E with non-empty data and a
\* positive duration gives an event with E's duration and with every
\* non-falsy attribute of E, at its value, in the data.
C15_CodecRoundTrip ==
    (/\ last.op = "_event_parser_from"
     /\ DOMAIN last.event.data # {}
     /\ last.event.duration > 0) =>
        LET E == last.event
            decoded == result.value[1]
        IN  /\ decoded.duration = E.duration
            /\ \A k \in DOMAIN E.data :
                  Truthy(E.data[k]) =>
                      k \in DOMAIN decoded.data /\ decoded.data[k] = E.data[k]

\* C19: the point made from an event E for bucket b has measurement b, time
\* E.timestamp, a duration field of E.duration and an id field of E.id (none
\* when E.id is None), whatever the names of E's attributes; every attribute
\* is a field, and the attributes named in tags, and no others, are also
\* tags under the "_" prefix.
C19_ToPointFields ==
    last.op = "_event_parser_to" =>
        LET E == last.event
            pt == result.value
        IN  /\ pt.measurement = last.bucket_id
            /\ pt.time = E.timestamp
            /\ pt.fields["duration"] = E.duration
            /\ E.id # None => "id" \in DOMAIN pt.fields /\ pt.fields["id"] = E.id
            /\ \A k \in DOMAIN E.data :
                  k \in DOMAIN pt.fields /\ pt.fields[k] = E.data[k]
            /\ DOMAIN pt.tags = {TagKey(k) : k \in DOMAIN E.data \cap tags}
            /\ \A k \in DOMAIN E.data \cap tags : pt.tags[TagKey(k)] = E.data[k]

\* C16: no series ever holds two records with the same timestamp, the case
\* of two events that differ in an attribute of tags included.
C16_OneRecordPerTimestamp ==
    \A b \in BucketIds :
        \A p, q \in db[b] : p.time = q.time => p = q

\* C18: the sentinel of create_bucket is never seen as an event: right after
\* create_bucket(b), get_events(b, limit=-1) is empty and get_eventcount(b)
\* is 0, and in every state get_eventcount(b) is the length of
\* get_events(b, limit=-1).
C18_SentinelHidden ==
    \A b \in EventBuckets :
        /\ (last.op = "create_bucket" /\ last.bucket_id = b) =>
              /\ get_events(db, b, -1, None, None) = {<<>>}
              /\ get_eventcount(db, b, None, None) = 0
        /\ \A r \in get_events(db, b, -1, None, None) :
              Len(r) = get_eventcount(db, b, None, None)

\* The id get_events reports for the latest record of the series.
MostRecentId(d, bucket_id) ==
    IF d[bucket_id] = {} THEN None ELSE Max({p.time : p \in d[bucket_id]})

\* C17: when no other write fell between the lookup and the write of a
\* replace_last (the single-writer case), the id the write carries is the
\* id of the series' most recent record at the moment of the write.
C17_SingleWriterLatestId ==
    [][\A w \in Writers :
          (/\ pending[w].active
           /\ ~pending'[w].active
           /\ pending[w].seen = db[pending[w].bucket_id])
          => pending[w].event.id = MostRecentId(db, pending[w].bucket_id)]_vars

\* C17, the race: a replace_last wrote with an id that the lookup would no
\* longer give, another writer's insert_one having come in between.
C17_StaleWrite ==
    /\ last.op = "replace_last"
    /\ last.event.id # None
    /\ last.event.id # get_last_event_id(pre, last.bucket_id)
====
